---- MODULE Spec2Model ----
(***************************************************************************)
(* LazyLoader (src/lazyLoader.js): a registry of IntersectionObserver      *)
(* instances, one per observe() call, keyed by a generated id.             *)
(*                                                                         *)
(* Every method of the class runs to completion on the single JavaScript   *)
(* thread, so each method (and the IntersectionObserver callback) is one   *)
(* action, the calls it makes into caller-supplied functions included.     *)
(* What the caller can see of a run -- the calls of the visibility         *)
(* callback, of the two hooks and of the watcher's unobserve() and         *)
(* disconnect(), and the removal of a record -- is appended, in program    *)
(* order, to the log of the registration concerned.                        *)
(*                                                                         *)
(* The platform IntersectionObserver is outside the repository.  It is     *)
(* modelled by its contract: it holds the set of targets it observes and   *)
(* delivers batches of entries only for targets in that set.               *)
(***************************************************************************)
EXTENDS Integers, Sequences, FiniteSets

\* ---- bounds ------------------------------------------------------------
MaxRegs == 2        \* observe() calls per run
NumElements == 2    \* DOM elements
MaxBatch == 2       \* entries in one delivered batch
MaxLog == 12        \* length of one registration's log
MaxDepth == 2       \* nested calls the JavaScript stack holds before RangeError
MaxCalls == 3       \* calls of one registration's callback, and of before hooks, in a run
MaxThrows == 2      \* exceptions that callbacks and hooks throw in a run

\* the strings #generateId returns in a run: one for each observe() call
Ids == 1..MaxRegs
Elements == 1..NumElements
RegIdx == 1..MaxRegs

VARIABLES
    env,         \* what surrounds the loader in this run: see Env
    options,     \* the argument the constructor was called with
    threshold,   \* this.threshold
    rootMargin,  \* this.rootMargin
    mapOf,       \* mapOf[k]: the Map object this.observers of the k-th LazyLoader refers to
    observers,   \* this.observers: the Map, as its entries in insertion order
    regs,        \* the closures made so far: regs[r] of the r-th observe() call
    tracking,    \* tracking[r]: the targets the r-th IntersectionObserver observes
    log,         \* log[r]: what the r-th registration's callbacks and watcher were asked to do
    raised,      \* the exception the last call let out to its caller
    hit,         \* hit[r]: an intersecting entry was delivered for registration r
    miss,        \* miss[r]: a batch without an intersecting entry was delivered for r
                 \* (recorded in the runs with env.misses)
    stopNoop,    \* stopNoop[r]: a call of the r-th returned stop function found its id absent
    peer         \* a second LazyLoader of the page: its observers, regs, tracking, log

fixed == <<env, options, threshold, rootMargin, mapOf>>
vars == <<env, options, threshold, rootMargin, mapOf, observers, regs, tracking, log,
          raised, hit, miss, stopNoop, peer>>

\* The part of the state the methods of the class read and write, with the
\* exception in flight (thrown), the depth of nested calls and whether a
\* bound of the model was passed (over).
StateOf(obs, rs, trk, lg) ==
    [observers |-> obs, regs |-> rs, tracking |-> trk, log |-> lg,
     thrown |-> "none", depth |-> 0, over |-> FALSE]

Cur == StateOf(observers, regs, tracking, log)

\* ---- what the caller passes --------------------------------------------
\* What a caller-supplied function does when called: nothing, throw, call
\* the stop function observe() returned for the same registration, or call
\* observe() on the same loader.
Kinds == {"noop", "throw", "stop", "observe"}

\* The functions given to one observe() call.
Script(cb, before, after) ==
    [callback |-> cb, beforeUnobserve |-> before, afterUnobserve |-> after]

\* no options, and a callback that returns
Quiet == Script("noop", "noop", "noop")

\* ---- Map ---------------------------------------------------------------
Keys(obs) == {obs[i].id : i \in DOMAIN obs}

\* Map.prototype.has
Has(obs, id) == id \in Keys(obs)

\* Map.prototype.get (of a key that is present)
Get(obs, id) == obs[CHOOSE i \in DOMAIN obs : obs[i].id = id]

MapSetDropsLast(obs, rec) ==
    IF obs = <<>> THEN <<rec>> ELSE Append(SubSeq(obs, 1, Len(obs) - 1), rec)

\* Map.prototype.set: a present key keeps its place, a new key goes last
MapSet(obs, rec) ==
    IF Has(obs, rec.id)
    THEN [i \in DOMAIN obs |-> IF obs[i].id = rec.id THEN rec ELSE obs[i]]
    ELSE Append(obs, rec)

\* Map.prototype.delete
MapDelete(obs, id) == SelectSeq(obs, LAMBDA e : e.id # id)

\* ---- what a registration's callbacks see and do ------------------------
\* One log entry: the call made, the method that made it, and what the
\* callee can observe at that moment: whether the record is in the Map and
\* whether the watcher still observes the element.
Entry(st, rec, ev, by) ==
    [ev |-> ev, by |-> by,
     has |-> Has(st.observers, rec.id),
     trk |-> rec.element \in st.tracking[rec.observer]]

Note(st, rec, ev, by) ==
    [st EXCEPT !.log[rec.observer] = Append(@, Entry(st, rec, ev, by))]

\* a statement reached while an exception is in flight is not executed
Running(st) == st.thrown = "none"

\* the ids no record and no closure of st holds
FreeIds(st) == Ids \ (Keys(st.observers) \cup {st.regs[r].id : r \in DOMAIN st.regs})

\* the least of them
NewIds(st) == {id \in FreeIds(st) : \A other \in FreeIds(st) : id <= other}

\* observe(callback, element, options), with the id #generateId returned
ObserveOp(st, element, script, id) ==
    IF Len(st.regs) >= MaxRegs
    THEN [st EXCEPT !.over = TRUE]
    ELSE LET r == Len(st.regs) + 1
             rec == [id |-> id, observer |-> r, element |-> element,
                     beforeUnobserve |-> script.beforeUnobserve,
                     afterUnobserve |-> script.afterUnobserve]
         IN  [st EXCEPT
                 !.regs = Append(@, [id |-> id, element |-> element,
                                     callback |-> script.callback,
                                     beforeUnobserve |-> script.beforeUnobserve,
                                     afterUnobserve |-> script.afterUnobserve]),
                 !.tracking[r] = @ \cup {element},
                 !.observers = MapSet(@, rec)]

RECURSIVE Unobserve(_, _)

\* The body of a caller-supplied function of registration rec.  A call that
\* would nest deeper than the stack holds raises RangeError.
Run(st, rec, kind, by) ==
    CASE kind = "noop" -> st
      [] kind = "throw" -> [Note(st, rec, "throw", by) EXCEPT !.thrown = "Error"]
      [] kind = "stop" ->
            IF st.depth >= MaxDepth
            THEN [st EXCEPT !.thrown = "RangeError"]
            ELSE [Unobserve([st EXCEPT !.depth = @ + 1], rec.id) EXCEPT !.depth = @ - 1]
      [] kind = "observe" ->
            IF NewIds(st) = {}
            THEN [st EXCEPT !.over = TRUE]
            ELSE ObserveOp(Note(st, rec, "observe", by), rec.element, Quiet,
                           CHOOSE id \in NewIds(st) : TRUE)

\* callback(entry)
Callback(st, rec, by) ==
    IF Running(st) THEN Run(Note(st, rec, "callback", by), rec, rec.callback, by) ELSE st

\* beforeUnobserve(element, observer); without the option, a no-op
BeforeUnobserve(st, rec, by) ==
    IF Running(st) THEN Run(Note(st, rec, "before", by), rec, rec.beforeUnobserve, by) ELSE st

\* afterUnobserve(element, observer); without the option, a no-op
AfterUnobserve(st, rec, by) ==
    IF Running(st) THEN Run(Note(st, rec, "after", by), rec, rec.afterUnobserve, by) ELSE st

WatcherUnobserveAll(st, rec, target, by) ==
    [Note(st, rec, "unobserve", by) EXCEPT !.tracking = [r \in RegIdx |-> {}]]

\* observer.unobserve(target)
WatcherUnobserve(st, rec, target, by) ==
    IF Running(st)
    THEN [Note(st, rec, "unobserve", by) EXCEPT !.tracking[rec.observer] = @ \ {target}]
    ELSE st

\* observer.disconnect()
WatcherDisconnect(st, rec, by) ==
    IF Running(st)
    THEN [Note(st, rec, "disconnect", by) EXCEPT !.tracking[rec.observer] = {}]
    ELSE st

\* this.observers.delete(id)
DeleteRecord(st, rec, by) ==
    IF Running(st)
    THEN [Note(st, rec, "delete", by) EXCEPT !.observers = MapDelete(@, rec.id)]
    ELSE st

\* ---- the IntersectionObserver callback of observe() --------------------
\* What the callback closes over: the caller's callback and its own
\* observer (the id and the hooks are those of the same observe() call).
RegRecOf(rs, r) ==
    [id |-> rs[r].id, observer |-> r, element |-> rs[r].element,
     callback |-> rs[r].callback,
     beforeUnobserve |-> rs[r].beforeUnobserve, afterUnobserve |-> rs[r].afterUnobserve]

RegRec(r) == RegRecOf(regs, r)

OnEntryWithHooks(st, rec, entry) ==
    IF entry.isIntersecting
    THEN AfterUnobserve(
             WatcherUnobserve(
                 BeforeUnobserve(Callback(st, rec, "event"), rec, "event"),
                 rec, entry.target, "event"),
             rec, "event")
    ELSE st

OnEntryAnyRatio(st, rec, entry) ==
    WatcherUnobserve(Callback(st, rec, "event"), rec, entry.target, "event")

OnEntryUnobserveFirst(st, rec, entry) ==
    IF entry.isIntersecting
    THEN Callback(WatcherUnobserve(st, rec, entry.target, "event"), rec, "event")
    ELSE st

\* if (entry.isIntersecting) { callback(entry); observer.unobserve(entry.target); }
OnEntry(st, rec, entry) ==
    IF entry.isIntersecting
    THEN WatcherUnobserve(Callback(st, rec, "event"), rec, entry.target, "event")
    ELSE st

\* entries.forEach(entry => ...)
RECURSIVE OnIntersection(_, _, _)
OnIntersection(st, rec, entries) ==
    IF entries = <<>>
    THEN st
    ELSE OnIntersection(OnEntry(st, rec, Head(entries)), rec, Tail(entries))

\* ---- #unobserve(id) ----------------------------------------------------
UnobserveKeepsRecord(st, id) ==
    IF ~Has(st.observers, id)
    THEN st
    ELSE LET rec == Get(st.observers, id)
             s1 == BeforeUnobserve(st, rec, "stop")
             s2 == WatcherUnobserve(s1, rec, rec.element, "stop")
         IN  AfterUnobserve(s2, rec, "stop")

UnobserveKeepsWatching(st, id) ==
    IF ~Has(st.observers, id)
    THEN st
    ELSE LET rec == Get(st.observers, id)
             s1 == BeforeUnobserve(st, rec, "stop")
             s3 == DeleteRecord(s1, rec, "stop")
         IN  AfterUnobserve(s3, rec, "stop")

\* as if the hook ran inside try { } catch { }
UnobserveCatches(st, id) ==
    IF ~Has(st.observers, id)
    THEN st
    ELSE LET rec == Get(st.observers, id)
             s1 == [BeforeUnobserve(st, rec, "stop") EXCEPT !.thrown = "none"]
             s2 == WatcherUnobserve(s1, rec, rec.element, "stop")
             s3 == DeleteRecord(s2, rec, "stop")
         IN  AfterUnobserve(s3, rec, "stop")

Unobserve(st, id) ==
    IF ~Has(st.observers, id)
    THEN st
    ELSE LET rec == Get(st.observers, id)
             s1 == BeforeUnobserve(st, rec, "stop")
             s2 == WatcherUnobserve(s1, rec, rec.element, "stop")
             s3 == DeleteRecord(s2, rec, "stop")
         IN  AfterUnobserve(s3, rec, "stop")

\* ---- disconnect() ------------------------------------------------------
\* the body of this.observers.forEach(...) for one record
DisconnectOne(st, rec) ==
    AfterUnobserve(
        WatcherDisconnect(BeforeUnobserve(st, rec, "disconnect"), rec, "disconnect"),
        rec, "disconnect")

\* the entries a forEach that has visited the keys in done still has to
\* visit: Map.prototype.forEach visits entries added while it runs and
\* passes over entries deleted before it reaches them
ToVisit(st, done) == SelectSeq(st.observers, LAMBDA e : e.id \notin done)

\* as if forEach ran over a copy of the entries taken when it started
RECURSIVE DisconnectSnapshot(_, _)
DisconnectSnapshot(st, done) ==
    LET todo == SelectSeq(ToVisit(st, done), LAMBDA e : e.observer <= Len(regs))
    IN  IF todo = <<>> \/ ~Running(st)
        THEN st
        ELSE DisconnectSnapshot(DisconnectOne(st, Head(todo)), done \cup {Head(todo).id})

\* this.observers.forEach(...), in insertion order, the keys in done visited
RECURSIVE DisconnectFrom(_, _)
DisconnectFrom(st, done) ==
    LET todo == ToVisit(st, done)
    IN  IF todo = <<>> \/ ~Running(st)
        THEN st
        ELSE DisconnectFrom(DisconnectOne(st, Head(todo)), done \cup {Head(todo).id})

DisconnectAllKeepsMap(st) == DisconnectFrom(st, {})

\* forEach, then this.observers.clear()
DisconnectAll(st) ==
    LET s == DisconnectFrom(st, {})
    IN  IF Running(s) THEN [s EXCEPT !.observers = <<>>] ELSE s

\* ---- constructor -------------------------------------------------------
\* JavaScript's undefined: what reading an absent property gives
Undefined == "undefined"

\* the default value of the constructor's parameter
DefaultOptions == [threshold |-> "0.1", rootMargin |-> "0px"]

\* What the constructor can be called with: nothing (given = FALSE), or an
\* object whose threshold and rootMargin are each present or absent.
OptionValues ==
    [given : {FALSE}, threshold : {Undefined}, rootMargin : {Undefined}]
    \cup [given : {TRUE}, threshold : {Undefined, "0.5"}, rootMargin : {Undefined, "100px"}]

NoOptions == [given |-> FALSE, threshold |-> Undefined, rootMargin |-> Undefined]

NewMapShared(allocated) == CHOOSE a \in 1..1 : TRUE

\* new Map(): an object that is none of the objects allocated so far
NewMap(allocated) == CHOOSE a \in 1..(Cardinality(allocated) + 1) : a \notin allocated

\* constructor(options = {threshold: 0.1, rootMargin: '0px'})
Constructor(opts, allocated) ==
    LET o == IF opts.given THEN opts ELSE DefaultOptions
    IN  [threshold |-> o.threshold, rootMargin |-> o.rootMargin,
         observers |-> NewMap(allocated)]

\* ---- #generateId() -----------------------------------------------------
\* Two Math.random() strings joined, about 22 base-36 digits.  The class
\* only compares ids for equality, so which string comes back matters only
\* in whether it equals one in use.  With env.ids = "new" it is taken to be
\* new (two calls returning the same string are left out) and is named by
\* the least number no record and no earlier closure holds; with
\* env.ids = "any" it may also be any string returned before.
GenerateId ==
    IF env.ids = "any"
    THEN NewIds(Cur) \cup {regs[r].id : r \in DOMAIN regs}
    ELSE NewIds(Cur)

\* The elements observe() can be given.  Elements are compared by identity
\* only, so they are numbered in the order of their first use: a call is
\* given an element used before or the next unused one.
Targets ==
    LET used == {regs[r].element : r \in DOMAIN regs}
                \cup {peer.regs[r].element : r \in DOMAIN peer.regs}
    IN  {e \in Elements : \A f \in 1..(e - 1) : f \in used}

\* ---- actions -----------------------------------------------------------
\* What a run is about: how ids are drawn, which functions callers pass,
\* and whether the batches that fire nothing are recorded.
Env(ids, scripts, misses) == [ids |-> ids, scripts |-> scripts, misses |-> misses]

\* the calls of ev in the log l
Calls(l, ev) == Cardinality({i \in DOMAIN l : l[i].ev = ev})

\* the calls of ev in the logs of registrations 1..r
RECURSIVE CallsUpTo(_, _, _)
CallsUpTo(st, ev, r) ==
    IF r = 0 THEN 0 ELSE Calls(st.log[r], ev) + CallsUpTo(st, ev, r - 1)

LogsFit(st) ==
    /\ \A r \in RegIdx :
          Len(st.log[r]) <= MaxLog /\ Calls(st.log[r], "callback") <= MaxCalls
    /\ CallsUpTo(st, "before", MaxRegs) <= MaxCalls
    /\ CallsUpTo(st, "throw", MaxRegs) <= MaxThrows

\* the two loaders hold the same Map object
SameMap == mapOf[1] = mapOf[2]

\* the state a call of the first loader leaves behind
Commit(st) ==
    /\ ~st.over
    /\ LogsFit(st)
    /\ observers' = st.observers
    /\ regs' = st.regs
    /\ tracking' = st.tracking
    /\ log' = st.log
    /\ raised' = st.thrown
    /\ peer' = IF SameMap THEN [peer EXCEPT !.observers = st.observers] ELSE peer
    /\ UNCHANGED fixed

NoPeer ==
    [observers |-> <<>>, regs |-> <<>>,
     tracking |-> [r \in RegIdx |-> {}], log |-> [r \in RegIdx |-> <<>>]]

\* the state after new LazyLoader(opts), in a page with a second loader
InitWith(e, opts) ==
    LET first == Constructor(opts, {})
        second == Constructor(NoOptions, {first.observers})
    IN  /\ env = e
        /\ options = opts
        /\ threshold = first.threshold
        /\ rootMargin = first.rootMargin
        /\ mapOf = <<first.observers, second.observers>>
        /\ observers = <<>>
        /\ regs = <<>>
        /\ tracking = [r \in RegIdx |-> {}]
        /\ log = [r \in RegIdx |-> <<>>]
        /\ raised = "none"
        /\ hit = [r \in RegIdx |-> FALSE]
        /\ miss = [r \in RegIdx |-> FALSE]
        /\ stopNoop = [r \in RegIdx |-> FALSE]
        /\ peer = NoPeer

\* new LazyLoader(), callers that pass functions that return
Init == InitWith(Env("new", {Quiet}, FALSE), NoOptions)

\* observe(callback, element, options)
Observe(element) ==
    /\ Len(regs) + Len(peer.regs) < MaxRegs
    /\ \E id \in GenerateId : \E script \in env.scripts :
          Commit(ObserveOp(Cur, element, script, id))
    /\ UNCHANGED <<hit, miss, stopNoop>>

\* The batches the platform can hand to the callback of registration r:
\* entries for an observed target, each intersecting or not.
Batches(r) ==
    UNION {[1..n -> [target : tracking[r], isIntersecting : BOOLEAN]] : n \in 1..MaxBatch}

Intersecting(entries) == \E i \in DOMAIN entries : entries[i].isIntersecting

\* the platform runs the IntersectionObserver callback of registration r
Deliver(r, entries) ==
    /\ r \in DOMAIN regs
    /\ Commit(OnIntersection(Cur, RegRec(r), entries))
    /\ hit' = [hit EXCEPT ![r] = @ \/ Intersecting(entries)]
    /\ miss' = [miss EXCEPT ![r] = @ \/ (env.misses /\ ~Intersecting(entries))]
    /\ UNCHANGED stopNoop

\* the function observe() returned: () => this.#unobserve(id)
Stop(r) ==
    /\ r \in DOMAIN regs
    /\ Commit(Unobserve(Cur, regs[r].id))
    /\ stopNoop' = [stopNoop EXCEPT ![r] = @ \/ ~Has(observers, regs[r].id)]
    /\ UNCHANGED <<hit, miss>>

\* disconnect()
Disconnect ==
    /\ Commit(DisconnectAll(Cur))
    /\ UNCHANGED <<hit, miss, stopNoop>>

Next ==
    \/ \E element \in Targets : Observe(element)
    \/ \E r \in RegIdx : \E entries \in Batches(r) : Deliver(r, entries)
    \/ \E r \in RegIdx : Stop(r)
    \/ Disconnect

Spec == Init /\ [][Next]_vars

\* ---- reading the logs --------------------------------------------------
Regs == DOMAIN regs

\* positions in log[r] of the calls ev
At(r, ev) == {i \in DOMAIN log[r] : log[r][i].ev = ev}

\* positions in log[r] of the calls ev made by method by
AtBy(r, ev, by) == {i \in At(r, ev) : log[r][i].by = by}

\* the events of log[r] from position i on, n of them
Evs(l, i, n) == [k \in 1..n |-> l[i + k - 1].ev]

\* the automatic teardown has run for r: an intersecting entry fired the
\* callback and the callback's watcher was told to unobserve
AutoDone(r) == AtBy(r, "unobserve", "event") # {}

\* the record of registration r is in the Map
Present(r) == Has(observers, regs[r].id)

\* ---- C1 ----------------------------------------------------------------
\* C1: for every observe() call the visibility callback is invoked at most
\* once, whatever reports are delivered (several in one batch included), and
\* exactly once if an intersecting report was delivered.
C1_CallbackAtMostOnce ==
    \A r \in Regs :
        /\ Cardinality(At(r, "callback")) <= 1
        /\ hit[r] => Cardinality(At(r, "callback")) = 1

\* ---- C2 ----------------------------------------------------------------
\* C2: once the automatic teardown of a registration has happened, its stop
\* function is a no-op: it invokes neither hook and changes nothing, so
\* nothing the stop function does appears in the log after that teardown.
C2_StopAfterAutoTeardownIsNoop ==
    \A r \in Regs :
        \A i \in AtBy(r, "unobserve", "event") :
            \A j \in DOMAIN log[r] : j > i => log[r][j].by # "stop"

\* ---- C3 ----------------------------------------------------------------
\* C3: after the automatic fire-and-teardown of a registration its record is
\* no longer in the Map, and disconnect() does nothing for it afterwards:
\* no hook and no second stop of its watcher.
C3_AutoTeardownRemovesRecord ==
    \A r \in Regs :
        AutoDone(r) =>
            /\ ~Present(r)
            /\ \A i \in AtBy(r, "unobserve", "event") :
                  \A j \in DOMAIN log[r] : j > i => log[r][j].by # "disconnect"

\* ---- C4 ----------------------------------------------------------------
\* C4: a stop of a record that is in the Map does, in this order and with
\* nothing in between: beforeStop, watcher.unobserve, removal of the record,
\* afterStop; beforeStop sees the record present and the watcher tracking,
\* afterStop sees the record absent and the watcher not tracking.
StopOrder(r) ==
    \A i \in AtBy(r, "before", "stop") :
        /\ i + 3 <= Len(log[r])
        /\ Evs(log[r], i, 4) = <<"before", "unobserve", "delete", "after">>
        /\ \A k \in 0..3 : log[r][i + k].by = "stop"
        /\ log[r][i].has /\ log[r][i].trk
        /\ ~log[r][i + 3].has /\ ~log[r][i + 3].trk

C4_StopOrderAndViews ==
    /\ \A r \in Regs : StopOrder(r)
    /\ \A r \in Regs :
          \A i \in DOMAIN log[r] :
              log[r][i].by = "stop" => \E b \in AtBy(r, "before", "stop") : i \in b..(b + 3)

\* ---- C5 ----------------------------------------------------------------
\* C5: calling a stop function again is the same as calling it once: once it
\* has been called, beforeStop and afterStop have each run exactly once in
\* all, the record has been removed at most once, and every call after the
\* first changes nothing.
HooksOnce(r) ==
    /\ Cardinality(At(r, "before")) = 1
    /\ Cardinality(At(r, "after")) = 1
    /\ Cardinality(At(r, "delete")) <= 1

\* the stop function of r has been called
StopCalled(r) == stopNoop[r] \/ AtBy(r, "before", "stop") # {}

RepeatedStopChangesNothing ==
    \A r \in Regs :
        (StopCalled(r) /\ Stop(r)) => UNCHANGED <<observers, tracking, log>>

C5_StopIdempotent ==
    /\ [](\A r \in Regs : StopCalled(r) => HooksOnce(r))
    /\ [][RepeatedStopChangesNothing]_vars

\* a first call tore the record down and a later call found it gone
C5_Witness ==
    \E r \in Regs : stopNoop[r] /\ AtBy(r, "delete", "stop") # {}

\* ---- C6 ----------------------------------------------------------------
\* C6: disconnect() runs, for each record in the Map and for no other
\* registration, beforeStop, the watcher's disconnect and afterStop, once
\* each, leaves that watcher tracking nothing, and leaves the Map empty as
\* after construction; on an empty Map it invokes nothing.
DisconnectedOne(r) ==
    /\ Len(log'[r]) = Len(log[r]) + 3
    /\ SubSeq(log'[r], 1, Len(log[r])) = log[r]
    /\ Evs(log'[r], Len(log[r]) + 1, 3) = <<"before", "disconnect", "after">>
    /\ tracking'[r] = {}

DisconnectEffect ==
    Disconnect =>
        /\ observers' = <<>>
        /\ \A r \in Regs :
              IF Present(r)
              THEN DisconnectedOne(r)
              ELSE log'[r] = log[r] /\ tracking'[r] = tracking[r]

C6_DisconnectTearsDownAll == [][DisconnectEffect]_vars

C6_Witness ==
    /\ Len(regs) = 2
    /\ observers = <<>>
    /\ \A r \in Regs : AtBy(r, "before", "disconnect") # {} /\ ~AutoDone(r)

\* ---- C7 ----------------------------------------------------------------
\* C7: when a stop function ran its protocol before the callback had fired,
\* beforeStop and then afterStop have each run exactly once, and the
\* callback of that registration is never invoked.
C7_StopBeforeFire ==
    \A r \in Regs :
        \A i \in AtBy(r, "before", "stop") :
            (\A c \in At(r, "callback") : c > i) =>
                /\ At(r, "callback") = {}
                /\ At(r, "before") = {i}
                /\ Cardinality(At(r, "after")) = 1
                /\ \A a \in At(r, "after") : a > i

C7_Witness ==
    \E r \in Regs :
        /\ AtBy(r, "before", "stop") # {}
        /\ At(r, "callback") = {}
        /\ \E r2 \in Regs : AutoDone(r2)

\* ---- C8 ----------------------------------------------------------------
\* C8: for registrations r1, r2 on different targets, a stop of r1 and a
\* batch delivered to r1 leave r2 as it was: its record stays in the Map
\* unchanged, its watcher tracks what it tracked, and none of its callback
\* and hooks is invoked.
Untouched(r) ==
    /\ log'[r] = log[r]
    /\ tracking'[r] = tracking[r]
    /\ Present(r) =>
          /\ Has(observers', regs[r].id)
          /\ Get(observers', regs[r].id) = Get(observers, regs[r].id)

OthersUntouched ==
    \A r1, r2 \in Regs :
        (/\ regs[r1].element # regs[r2].element
         /\ Stop(r1) \/ \E entries \in Batches(r1) : Deliver(r1, entries))
            => Untouched(r2)

C8_Independent == [][OthersUntouched]_vars

C8_Witness ==
    \E r1, r2 \in Regs :
        /\ regs[r1].element # regs[r2].element
        /\ AutoDone(r1)
        /\ AtBy(r1, "delete", "stop") # {}
        /\ Present(r2)
        /\ regs[r2].element \in tracking[r2]
        /\ log[r2] = <<>>

\* ---- C9 ----------------------------------------------------------------
\* C9: the automatic teardown invokes neither hook: a delivered batch adds
\* no hook call to any log, and every hook call in a log was made by a stop
\* function or by disconnect().
HookCalls(l) == {i \in DOMAIN l : l[i].ev \in {"before", "after"}}

DeliveryRunsNoHook ==
    (\E d \in Regs : \E entries \in Batches(d) : Deliver(d, entries)) =>
        \A r \in Regs : Cardinality(HookCalls(log'[r])) = Cardinality(HookCalls(log[r]))

C10_HooksAroundEveryWatcherStop ==
    \A r \in Regs :
        \A i \in At(r, "unobserve") \cup At(r, "disconnect") :
            /\ \E b \in At(r, "before") : b < i
            /\ \E a \in At(r, "after") : a > i

\* ---- C11 ---------------------------------------------------------------
\* new LazyLoader(options) for every options value
InitNew == \E opts \in OptionValues : InitWith(Env("new", {Quiet}, FALSE), opts)

SpecNew == InitNew /\ [][Next]_vars

\* what options supplies for a setting, or the documented default
Setting(supplied, default) == IF options.given /\ supplied # Undefined THEN supplied ELSE default

\* C11: each setting takes its default on its own when options omits it
\* (threshold 0.1, rootMargin "0px"), a supplied value is stored unchanged,
\* and the new loader has an empty Map.
C11_DefaultsIndependent ==
    /\ threshold = Setting(options.threshold, "0.1")
    /\ rootMargin = Setting(options.rootMargin, "0px")
    /\ regs = <<>> => observers = <<>>

\* ---- a second LazyLoader -----------------------------------------------
\* the state the methods of the second loader read and write
PeerCur == StateOf(peer.observers, peer.regs, peer.tracking, peer.log)

\* the state a call of the second loader leaves behind
PeerCommit(st) ==
    /\ ~st.over
    /\ LogsFit(st)
    /\ peer' = [observers |-> st.observers, regs |-> st.regs,
                tracking |-> st.tracking, log |-> st.log]
    /\ observers' = IF SameMap THEN st.observers ELSE observers
    /\ UNCHANGED <<regs, tracking, log, raised, hit, miss, stopNoop>>
    /\ UNCHANGED fixed

\* observe(callback, element) on the second loader
PeerObserve(element) ==
    /\ Len(regs) + Len(peer.regs) < MaxRegs
    /\ \E id \in NewIds(PeerCur) : PeerCommit(ObserveOp(PeerCur, element, Quiet, id))

PeerBatches(r) ==
    UNION {[1..n -> [target : peer.tracking[r], isIntersecting : BOOLEAN]] : n \in 1..MaxBatch}

\* the platform runs the IntersectionObserver callback of the second loader's r
PeerDeliver(r, entries) ==
    /\ r \in DOMAIN peer.regs
    /\ PeerCommit(OnIntersection(PeerCur, RegRecOf(peer.regs, r), entries))

\* a stop function the second loader returned
PeerStop(r) ==
    /\ r \in DOMAIN peer.regs
    /\ PeerCommit(Unobserve(PeerCur, peer.regs[r].id))

\* disconnect() on the second loader
PeerDisconnect == PeerCommit(DisconnectAll(PeerCur))

NextPeer ==
    \/ \E element \in Targets : PeerObserve(element)
    \/ \E r \in RegIdx : \E entries \in PeerBatches(r) : PeerDeliver(r, entries)
    \/ \E r \in RegIdx : PeerStop(r)
    \/ PeerDisconnect

NextTwo == Next \/ NextPeer

SpecTwo == Init /\ [][NextTwo]_vars

\* ---- C12 ---------------------------------------------------------------
\* C12: two loaders constructed independently never interfere: whatever a
\* method or event of one does, the other's records, watchers and logs
\* (callbacks and hooks invoked) stay as they were.
EachLeavesTheOtherAlone ==
    /\ peer' = peer \/ ~Next
    /\ UNCHANGED <<observers, regs, tracking, log>> \/ ~NextPeer

C12_LoadersIndependent == [][EachLeavesTheOtherAlone]_vars

\* the first loader has been disconnected while the second holds a record
\* whose watcher tracks and whose callbacks were never called
C12_Witness ==
    /\ regs # <<>> /\ observers = <<>> /\ AtBy(1, "before", "disconnect") # {}
    /\ Len(peer.observers) = 1 /\ peer.tracking[1] # {} /\ peer.log[1] = <<>>

\* ---- C13 ---------------------------------------------------------------
\* C13: in every reachable state each record in the Map has a watcher that
\* still tracks the record's element.
C13_RecordsHaveActiveWatcher ==
    \A i \in DOMAIN observers :
        observers[i].element \in tracking[observers[i].observer]

\* ---- C14 ---------------------------------------------------------------
\* callers whose callback or hook calls the stop function of its own
\* registration
StopScripts ==
    {Quiet, Script("stop", "noop", "noop"), Script("noop", "stop", "noop"),
     Script("noop", "noop", "stop")}

InitReentrant == InitWith(Env("new", StopScripts, FALSE), NoOptions)

SpecReentrant == InitReentrant /\ [][Next]_vars

\* C14: a stop function called from inside its registration's own hook or
\* callback (under a manual stop or under disconnect()) tears the record
\* down only once: each hook has run at most once, the record was removed
\* at most once, and the nested call returned (no stack overflow).
C14_TeardownNotReentrant ==
    /\ raised # "RangeError"
    /\ \A r \in Regs :
          /\ Cardinality(At(r, "before")) <= 1
          /\ Cardinality(At(r, "after")) <= 1
          /\ Cardinality(At(r, "delete")) <= 1

\* ---- C15 ---------------------------------------------------------------
\* Math.random() may return what it returned before
InitIds == InitWith(Env("any", {Quiet}, FALSE), NoOptions)

SpecIds == InitIds /\ [][Next]_vars

\* no record of the loader has been torn down
NoTeardown == \A r \in Regs : log[r] = <<>>

\* every record of the Map has a watcher of its own
OwnWatchers ==
    \A i, j \in DOMAIN observers : i # j => observers[i].observer # observers[j].observer

DistinctIds == \A r1, r2 \in Regs : r1 # r2 => regs[r1].id # regs[r2].id

\* an observe() call whose id is not yet a key appends its record and
\* leaves the other records as they are
NewKeyAppends ==
    \A element \in Targets :
        (Observe(element) /\ regs'[Len(regs')].id \notin Keys(observers)) =>
            /\ Len(observers') = Len(observers) + 1
            /\ SubSeq(observers', 1, Len(observers)) = observers
            /\ observers'[Len(observers')].id = regs'[Len(regs')].id

InitMiss == InitWith(Env("new", {Quiet}, TRUE), NoOptions)

SpecMiss == InitMiss /\ [][Next]_vars

\* Deliver sets miss[r] when it hands r a batch without an intersecting
\* entry, and no other action does: the steps that set it are those
\* deliveries, and they leave the loader as it was
MissChangesNothing ==
    \A r \in Regs :
        (miss'[r] /\ ~miss[r]) => UNCHANGED <<observers, regs, tracking, log, raised>>

\* likewise for hit[r] and a batch with an intersecting entry: it runs the
\* callback, whatever was delivered before
HitFires ==
    \A r \in Regs :
        (hit'[r] /\ ~hit[r]) =>
            Len(log'[r]) > Len(log[r]) /\ log'[r][Len(log[r]) + 1].ev = "callback"

\* C16: an event reporting the element as not intersecting changes nothing:
\* no callback, watcher not stopped, record kept; a later intersecting event
\* still runs the callback.
C16_MissIsIgnored == [][MissChangesNothing /\ HitFires]_vars

C16_Witness == \E r \in Regs : miss[r] /\ hit[r] /\ At(r, "callback") # {}

\* ---- C17 ---------------------------------------------------------------
\* callers whose hooks register the element again
ObserveScripts == {Quiet, Script("noop", "observe", "noop"), Script("noop", "noop", "observe")}

InitHookObserve == InitWith(Env("new", ObserveScripts, FALSE), NoOptions)

SpecHookObserve == InitHookObserve /\ [][Next]_vars

\* the registrations a step added
Added == {r \in DOMAIN regs' : r > Len(regs)}

\* a disconnect() that returns leaves no record and no watcher observing,
\* and has run the protocol on the records its hooks added
DisconnectReachesAdded ==
    (Disconnect /\ raised' = "none") =>
        /\ observers' = <<>>
        /\ \A r \in DOMAIN regs' : tracking'[r] = {}
        /\ \A r \in Added : Evs(log'[r], 1, Len(log'[r])) = <<"before", "disconnect", "after">>

\* C17: a record that a hook registers with observe() while disconnect()
\* runs is processed by that same disconnect(): when disconnect() returns
\* normally the Map is empty and no watcher is observing.
C17_DisconnectProcessesAddedRecords == [][DisconnectReachesAdded]_vars

C17_Witness ==
    \E r, r2 \in Regs :
        /\ r < r2
        /\ At(r, "observe") # {} /\ AtBy(r, "before", "disconnect") # {}
        /\ Evs(log[r2], 1, Len(log[r2])) = <<"before", "disconnect", "after">>
        /\ observers = <<>> /\ raised = "none"
        /\ \A q \in Regs : tracking[q] = {}

\* ---- C18 ---------------------------------------------------------------
\* callers whose beforeUnobserve hook throws
ThrowingHook == {Script("noop", "throw", "noop")}

InitThrowingHook == InitWith(Env("new", ThrowingHook, FALSE), NoOptions)

SpecThrowingHook == InitThrowingHook /\ [][Next]_vars

\* a manual stop of a present record whose beforeUnobserve throws: the
\* exception leaves stop(), and nothing but the hook call has happened
ThrowingBeforeAborts ==
    \A r \in Regs :
        (Present(r) /\ regs[r].beforeUnobserve = "throw" /\ Stop(r)) =>
            /\ raised' = "Error"
            /\ observers' = observers /\ tracking' = tracking
            /\ Len(log'[r]) = Len(log[r]) + 2
            /\ SubSeq(log'[r], 1, Len(log[r])) = log[r]
            /\ Evs(log'[r], Len(log[r]) + 1, 2) = <<"before", "throw">>
            /\ log'[r][Len(log[r]) + 1].by = "stop"

\* C18: if beforeUnobserve throws during a manual stop, the exception
\* propagates to the caller of stop(), the watcher is not stopped, the record
\* stays, afterUnobserve is not called, and a later stop() finds the record
\* and runs the protocol from the start again.
C18_ThrowingBeforeHook == [][ThrowingBeforeAborts]_vars

C18_Witness ==
    \E r \in Regs :
        /\ regs[r].beforeUnobserve = "throw" /\ raised = "Error"
        /\ Cardinality(AtBy(r, "before", "stop")) >= 2
        /\ At(r, "after") = {} /\ At(r, "unobserve") = {}
        /\ Present(r) /\ regs[r].element \in tracking[r]

\* ---- C19 ---------------------------------------------------------------
\* callers whose callback throws
ThrowingCallback == {Script("throw", "noop", "noop")}

InitThrowingCallback == InitWith(Env("new", ThrowingCallback, FALSE), NoOptions)

SpecThrowingCallback == InitThrowingCallback /\ [][Next]_vars

\* an intersecting entry handed to a throwing callback: the exception
\* leaves the handler, and nothing but the callback call has happened
\* (the call is logged, so only steps that change log[r] are looked at)
ThrowingCallbackAborts ==
    \A r \in {q \in Regs : regs[q].callback = "throw" /\ log'[q] # log[q]} :
        \A entries \in {b \in Batches(r) : Intersecting(b)} :
            Deliver(r, entries) =>
            /\ raised' = "Error"
            /\ observers' = observers /\ tracking' = tracking
            /\ Len(log'[r]) = Len(log[r]) + 2
            /\ SubSeq(log'[r], 1, Len(log[r])) = log[r]
            /\ Evs(log'[r], Len(log[r]) + 1, 2) = <<"callback", "throw">>

\* C19: if the callback throws, the exception propagates out of the event
\* handler, the watcher is not told to stop, the record stays, and the next
\* intersecting event calls the callback again.
C19_ThrowingCallback == [][ThrowingCallbackAborts]_vars

C19_Witness ==
    \E r \in Regs :
        /\ regs[r].callback = "throw" /\ raised = "Error"
        /\ Cardinality(At(r, "callback")) >= 2
        /\ At(r, "unobserve") = {}
        /\ Present(r) /\ regs[r].element \in tracking[r]

====
